---- MODULE Spec2Model ----
(***************************************************************************)
(* Model of boundary_generator.py: the batch driver (__main__), the        *)
(* per-place pipeline process_city and the writer write_pretty_geojson.    *)
(*                                                                         *)
(* Strings the code edits character by character (place names, file        *)
(* names, written tokens) are sequences of one-character strings.          *)
(* A geometry is abstracted to the set of cells of a small board that it   *)
(* covers: two polygons touch only when they share a cell, so the parts of *)
(* a merged geometry are the distinct cells of the union.  The geometry    *)
(* library (shapely), the OSM query library (osmnx) and the file system    *)
(* are the environment: their outcomes are nondeterministic choices.       *)
(***************************************************************************)
EXTENDS Integers, Sequences, FiniteSets, TLC

VARIABLES
    CITIES,       \* the configured list of place names (line 11)
    i,            \* position of the for loop of __main__ in CITIES
    pc,           \* position of the program / of process_city
    city_name,    \* parameter of the running process_city
    gdf,          \* local gdf of process_city
    merged_geom,  \* local merged_geom of process_city
    geo_dict,     \* local geo_dict of process_city
    output_path,  \* local output_path of process_city
    files,        \* the file system under OUTPUT_FOLDER: path -> content
    log,          \* what the run printed, one entry per process_city call
    osm,          \* which extract of OSM the run queries (environment)
    index,        \* resolver: the boundary index, a list of (key, path)
    query,        \* resolver: the requested place name
    result,       \* resolver: what resolve returned
    fuzzy_used,   \* resolver: whether the similarity step was consulted
    rpc           \* resolver: position

vars == <<CITIES, i, pc, city_name, gdf, merged_geom, geo_dict, output_path,
          files, log, osm, index, query, result, fuzzy_used, rpc>>

pipeVars == <<CITIES, i, pc, city_name, gdf, merged_geom, geo_dict,
              output_path, files, log, osm>>

resolverVars == <<index, query, result, fuzzy_used, rpc>>

----------------------------------------------------------------------------
(* Bounds of the model *)

MaxCities == 2

MaxNameLen == 2

MaxRows == 2

NCells == 2

Alphabet == {"a", " ", ","}

Cells == 1..NCells

SeqsUpTo(S, n) == UNION {[1..k -> S] : k \in 0..n}

PlaceNames == SeqsUpTo(Alphabet, MaxNameLen) \ {<<>>}

\* The names of the multi-place runs: pairs that differ only by a comma, or
\* by a space against an underscore, and pairs that differ in a letter.
BatchNames == {<<"a">>, <<"a", ",">>, <<"a", " ">>, <<"a", "_">>, <<"b">>}

----------------------------------------------------------------------------
(* Configuration, lines 11-21 *)

ADMIN_LEVEL == "8"

OUTPUT_FOLDER == "output"

----------------------------------------------------------------------------
(* Python values *)

None == [t |-> "None"]

PyStr(s) == [t |-> "str", v |-> s]

DigitChars == <<"0", "1", "2", "3", "4", "5", "6", "7", "8", "9">>

RECURSIVE Digits(_)
Digits(n) == IF n < 10 THEN <<DigitChars[n + 1]>>
             ELSE Digits(n \div 10) \o <<DigitChars[(n % 10) + 1]>>

\* What an f-string writes for a value: str(None) is "None", a str is written
\* as it is, an int in decimal.
FormatValue(v) ==
    CASE v.t = "None" -> <<"N", "o", "n", "e">>
      [] v.t = "str" -> v.v
      [] v.t = "int" -> IF v.v < 0 THEN <<"-">> \o Digits(-v.v) ELSE Digits(v.v)

\* str.replace(old, new) for a one-character old; new is a string.
RECURSIVE Replace(_, _, _)
Replace(s, old, new) ==
    IF s = <<>> THEN <<>>
    ELSE (IF Head(s) = old THEN new ELSE <<Head(s)>>) \o Replace(Tail(s), old, new)

----------------------------------------------------------------------------
(* Geometries and the geometry library *)

PolygonTypes == {"Polygon", "MultiPolygon"}

\* The geometry type shapely gives to a region.
TypeOf(region) ==
    IF region = {} THEN "GeometryCollection"
    ELSE IF Cardinality(region) = 1 THEN "Polygon" ELSE "MultiPolygon"

Geom(region, valid) ==
    [type |-> TypeOf(region), region |-> region, valid |-> valid,
     repaired |-> FALSE, simplified |-> FALSE]

PointGeom ==
    [type |-> "Point", region |-> {}, valid |-> TRUE,
     repaired |-> FALSE, simplified |-> FALSE]

\* The rows an OSM query can return: (multi)polygons, valid or not, and
\* features that are not polygons.
FetchedGeoms ==
    {Geom(r, v) : r \in (SUBSET Cells) \ {{}}, v \in BOOLEAN} \cup {PointGeom}

SourceCRS == {"EPSG:4326", "EPSG:3857"}

\* A table: its rows, the CRS of its coordinates, and the CRS they were
\* fetched in.
NoGdf == [crs |-> "none", fetched_crs |-> "none", rows |-> <<>>]

NoGeom == [type |-> "none", region |-> {}, valid |-> TRUE]

NoDict == [type |-> "none", features |-> <<>>]

NoPath == <<>>

\* g.buffer(0)
Buffer0(g) == [g EXCEPT !.valid = TRUE, !.repaired = TRUE]

\* Mutant of Repair: the repair is left out.
RepairNothing(g) == g

\* lambda g: g.buffer(0) if not g.is_valid else g      (line 117)
Repair(g) == IF ~g.valid THEN Buffer0(g) ELSE g

\* simplify(tolerance=0.0001, preserve_topology=True)  (line 118): the region
\* keeps its cells and a valid geometry stays valid.
Simplify(g) == [g EXCEPT !.simplified = TRUE]

\* clean_geometry (lines 34-42), the same two steps on one geometry.
clean_geometry(geometry) == Simplify(Repair(geometry))

Range(s) == {s[k] : k \in DOMAIN s}

Distinct(s) == \A j, k \in DOMAIN s : j # k => s[j] # s[k]

\* unary_union(geoms) (line 121): the union of the regions, or an error of
\* GEOS.  The union of valid inputs is valid; the union of an input that is
\* not valid is not.
unary_union(geoms) ==
    LET region == UNION {g.region : g \in Range(geoms)}
    IN  {[raised |-> TRUE, geom |-> NoGeom],
         [raised |-> FALSE,
          geom |-> [type |-> TypeOf(region), region |-> region,
                    valid |-> \A g \in Range(geoms) : g.valid]]}

----------------------------------------------------------------------------
(* GeoJSON of a geometry: gpd.GeoSeries([g]).to_json() read back (line 132) *)

Ring(c) == <<<<2 * c, 0>>, <<2 * c + 1, 0>>, <<2 * c, 1>>, <<2 * c, 0>>>>

\* The cells of a region in ascending order: the part order of the geometry.
RECURSIVE SortedCells(_)
SortedCells(region) ==
    IF region = {} THEN <<>>
    ELSE LET c == CHOOSE x \in region : \A y \in region : x <= y
         IN  <<c>> \o SortedCells(region \ {c})

GeometryJson(g) ==
    LET cells == SortedCells(g.region)
    IN  CASE g.type = "Polygon" ->
               [type |-> "Polygon", coordinates |-> <<Ring(cells[1])>>]
          [] g.type = "MultiPolygon" ->
               [type |-> "MultiPolygon",
                coordinates |-> [k \in DOMAIN cells |-> <<Ring(cells[k])>>]]
          [] OTHER ->
               [type |-> "GeometryCollection", geometries |-> <<>>]

\* Nesting of a coordinates array above the number pairs: what the test
\* isinstance(coords[0][0], (float, int)) of line 63 finds out.
CoordDepth(type) == IF type = "Polygon" THEN 1 ELSE 2

----------------------------------------------------------------------------
(* write_pretty_geojson, lines 54-98 *)

\* format_coords (lines 59-70): a list of pairs becomes one line per pair at
\* the given indent, any other list the formatted items two columns deeper.
RECURSIVE format_coords(_, _, _)
format_coords(coords, depth, indent) ==
    IF depth = 0
    THEN [lines |-> [k \in DOMAIN coords |->
                       [indent |-> indent, x |-> coords[k][1], y |-> coords[k][2]]],
          close |-> indent - 2]
    ELSE [lines |-> [k \in DOMAIN coords |->
                       format_coords(coords[k], depth - 1, indent + 2)],
          close |-> indent - 2]

\* feat["geometry"]["coordinates"] (line 90) raises KeyError without the key,
\* coords[0][0] (line 63) raises IndexError on an empty array.
FormatRaises(feat) ==
    \/ "coordinates" \notin DOMAIN feat.geometry
    \/ feat.geometry.coordinates = <<>>

\* dict.get(key, default)
DictGet(d, key, default) == IF key \in DOMAIN d THEN d[key] ELSE default

\* Insertion order of the keys of a property bag (lines 128-130).
PropertyOrder == <<"name", "source", "nurseries">>

\* json.dumps(feat.get("properties", {}), indent=6), one line per key
\* (lines 81-86).
DumpProperties(feat) ==
    LET props == DictGet(feat, "properties", <<>>)
        InBag(k) == k \in DOMAIN props
        keys == SelectSeq(PropertyOrder, InBag)
    IN  [k \in DOMAIN keys |-> [key |-> keys[k], value |-> props[keys[k]]]]

\* One feature as lines 77-92 write it.
RenderFeature(feat) ==
    [type |-> feat.type,
     id |-> FormatValue(DictGet(feat, "id", PyStr(<<"n", "u", "l", "l">>))),
     properties |-> DumpProperties(feat),
     geometry |-> [type |-> feat.geometry.type,
                   coordinates |-> format_coords(feat.geometry.coordinates,
                                                 CoordDepth(feat.geometry.type) , 10)]]

\* The text of the file, lines 72-95.
Render(data) ==
    [type |-> data.type,
     features |-> [k \in DOMAIN data.features |-> RenderFeature(data.features[k])]]

\* A file that open(path, "w") created or truncated and f.write did not fill.
PartialFile == [type |-> "partial", features |-> <<>>]

Put(fs, path, content) ==
    [p \in DOMAIN fs \cup {path} |-> IF p = path THEN content ELSE fs[p]]

\* Mutant of write_pretty_geojson: the file is opened before the text is
\* built, so a formatting error leaves a truncated file behind.
write_open_first(data, path, fs) ==
    IF \E k \in DOMAIN data.features : FormatRaises(data.features[k])
    THEN {[raised |-> TRUE, files |-> Put(fs, path, PartialFile)]}
    ELSE {[raised |-> TRUE, files |-> fs],
          [raised |-> TRUE, files |-> Put(fs, path, PartialFile)],
          [raised |-> FALSE, files |-> Put(fs, path, Render(data))]}

\* The outcomes of write_pretty_geojson(data, path) on the file system fs:
\* the text is built first (lines 72-95) and may raise; then open may raise,
\* or write may raise after open truncated the file, or the text is written
\* (lines 97-98).
write_pretty_geojson(data, path, fs) ==
    IF \E k \in DOMAIN data.features : FormatRaises(data.features[k])
    THEN {[raised |-> TRUE, files |-> fs]}
    ELSE {[raised |-> TRUE, files |-> fs],
          [raised |-> TRUE, files |-> Put(fs, path, PartialFile)],
          [raised |-> FALSE, files |-> Put(fs, path, Render(data))]}

----------------------------------------------------------------------------
(* process_city, lines 100-148 *)

\* The feature tables ox.features_from_place can return (lines 104-106).
\* The batch runs with many places query a coarse extract: the empty table,
\* a single polygon, a multi-part polygon.  The single-place runs query the
\* full extract: every table within the bounds.
Tables(extract) ==
    IF extract = "coarse"
    THEN {[crs |-> "EPSG:4326", fetched_crs |-> "EPSG:4326", rows |-> rows] :
             rows \in {<<>>, <<Geom({1}, TRUE)>>, <<Geom(Cells, TRUE)>>}}
    ELSE {[crs |-> crs, fetched_crs |-> crs, rows |-> rows] :
             crs \in SourceCRS, rows \in SeqsUpTo(FetchedGeoms, MaxRows)}

\* gdf[gdf.geometry.type.isin(["Polygon", "MultiPolygon"])]   (line 112)
KeepPolygons(table) ==
    LET IsPolygon(g) == g.type \in PolygonTypes
    IN  [table EXCEPT !.rows = SelectSeq(table.rows, IsPolygon)]

\* Mutant of to_crs: the reprojection is left out.
to_crs_skipped(table) == table

\* gdf.to_crs(epsg=4326)   (line 114)
to_crs(table) == [table EXCEPT !.crs = "EPSG:4326"]

\* Lines 117-118.  buffer(0) may fail inside GEOS on an invalid geometry.
CleanOutcomes(table) ==
    {[raised |-> FALSE,
      gdf |-> [table EXCEPT !.rows = [k \in DOMAIN table.rows |->
                                        clean_geometry(table.rows[k])]]]}
    \cup (IF \E g \in Range(table.rows) : ~g.valid
          THEN {[raised |-> TRUE, gdf |-> table]} ELSE {})

\* Mutant of Feature: the provenance string is left out of the property bag.
FeatureNoProvenance(name, geom) ==
    [type |-> "Feature",
     id |-> None,
     properties |-> [name |-> name, nurseries |-> <<>>],
     geometry |-> GeometryJson(geom)]

\* Lines 124-133.
Feature(name, geom) ==
    [type |-> "Feature",
     id |-> None,
     properties |-> [name |-> name, source |-> "user-drawn", nurseries |-> <<>>],
     geometry |-> GeometryJson(geom)]

\* Mutant of GeoDict: one feature per part of the geometry, the name followed
\* by the number of the part.
GeoDictSplit(name, geom) ==
    LET cells == SortedCells(geom.region)
    IN  [type |-> "FeatureCollection",
         features |->
            IF Len(cells) <= 1 THEN <<Feature(name, geom)>>
            ELSE [k \in DOMAIN cells |->
                    Feature(name \o <<" ">> \o Digits(k),
                            [geom EXCEPT !.type = "Polygon", !.region = {cells[k]}])]]

\* Lines 135-138.
GeoDict(name, geom) ==
    [type |-> "FeatureCollection", features |-> <<Feature(name, geom)>>]

\* Mutant of safe_name: a comma becomes an underscore too.
safe_name_underscores(name) == Replace(Replace(name, ",", <<"_">>), " ", <<"_">>)

\* Line 141.
safe_name(name) == Replace(Replace(name, ",", <<>>), " ", <<"_">>)

\* os.path.join(OUTPUT_FOLDER, f"{safe_name}.geojson")   (line 142)
OutputPath(name) == <<OUTPUT_FOLDER, "/">> \o safe_name(name) \o <<".geojson">>

Logged(outcome) == Append(log, [city |-> city_name, outcome |-> outcome])

\* process_city returns to the for loop of __main__.
Return(outcome) ==
    /\ log' = Logged(outcome)
    /\ i' = i + 1
    /\ pc' = "main"
    /\ city_name' = <<>>
    /\ gdf' = NoGdf
    /\ merged_geom' = NoGeom
    /\ geo_dict' = NoDict
    /\ output_path' = NoPath

\* Lines 155-156: the next place of the list.
Main ==
    /\ pc = "main"
    /\ i <= Len(CITIES)
    /\ pc' = "fetch"
    /\ city_name' = CITIES[i]
    /\ UNCHANGED <<CITIES, i, gdf, merged_geom, geo_dict, output_path, files, log, osm>>
    /\ UNCHANGED resolverVars

\* Lines 104-106: the query raises.
FetchRaises ==
    /\ pc = "fetch"
    /\ pc' = "except"
    /\ UNCHANGED <<CITIES, i, city_name, gdf, merged_geom, geo_dict, output_path,
                   files, log, osm>>
    /\ UNCHANGED resolverVars

\* Lines 104-109: the query answers; an empty table ends process_city.
Fetch ==
    /\ pc = "fetch"
    /\ \E table \in Tables(osm) :
          IF table.rows = <<>>
          THEN /\ Return("empty")
               /\ UNCHANGED <<CITIES, files, osm>>
          ELSE /\ gdf' = table
               /\ pc' = "filter"
               /\ UNCHANGED <<CITIES, i, city_name, merged_geom, geo_dict,
                              output_path, files, log, osm>>
    /\ UNCHANGED resolverVars

\* Lines 112-114: keep the polygons, keep the columns name and geometry (a
\* table without a name column raises KeyError), reproject.
FilterReproject ==
    /\ pc = "filter"
    /\ \E has_name \in BOOLEAN :
          IF has_name
          THEN /\ gdf' = to_crs(KeepPolygons(gdf))
               /\ pc' = "clean"
          ELSE /\ gdf' = KeepPolygons(gdf)
               /\ pc' = "except"
    /\ UNCHANGED <<CITIES, i, city_name, merged_geom, geo_dict, output_path,
                   files, log, osm>>
    /\ UNCHANGED resolverVars

\* Lines 117-118.
Clean ==
    /\ pc = "clean"
    /\ \E out \in CleanOutcomes(gdf) :
          /\ gdf' = out.gdf
          /\ pc' = IF out.raised THEN "except" ELSE "merge"
    /\ UNCHANGED <<CITIES, i, city_name, merged_geom, geo_dict, output_path,
                   files, log, osm>>
    /\ UNCHANGED resolverVars

\* Lines 121-138: merge, build the feature and the collection.
MergeAndBuild ==
    /\ pc = "merge"
    /\ \E out \in unary_union(gdf.rows) :
          IF out.raised
          THEN /\ pc' = "except"
               /\ UNCHANGED <<merged_geom, geo_dict>>
          ELSE /\ merged_geom' = out.geom
               /\ geo_dict' = GeoDict(city_name, out.geom)
               /\ pc' = "write"
    /\ UNCHANGED <<CITIES, i, city_name, gdf, output_path, files, log, osm>>
    /\ UNCHANGED resolverVars

\* Lines 141-143.
Write ==
    /\ pc = "write"
    /\ output_path' = OutputPath(city_name)
    /\ \E out \in write_pretty_geojson(geo_dict, OutputPath(city_name), files) :
          /\ files' = out.files
          /\ pc' = IF out.raised THEN "except" ELSE "exported"
    /\ UNCHANGED <<CITIES, i, city_name, gdf, merged_geom, geo_dict, log, osm>>
    /\ UNCHANGED resolverVars

\* Line 145, and the return.
Exported ==
    /\ pc = "exported"
    /\ Return("exported")
    /\ UNCHANGED <<CITIES, files, osm>>
    /\ UNCHANGED resolverVars

\* Mutant of Except: the error is not caught and ends the run.
ExceptEscapes ==
    /\ pc = "except"
    /\ pc' = "done"
    /\ log' = Logged("error")
    /\ UNCHANGED <<CITIES, i, city_name, gdf, merged_geom, geo_dict, output_path,
                   files, osm>>
    /\ UNCHANGED resolverVars

\* Lines 147-148: the handler prints the error; process_city returns.
Except ==
    /\ pc = "except"
    /\ Return("error")
    /\ UNCHANGED <<CITIES, files, osm>>
    /\ UNCHANGED resolverVars

\* Line 158.
Complete ==
    /\ pc = "main"
    /\ i > Len(CITIES)
    /\ pc' = "done"
    /\ UNCHANGED <<CITIES, i, city_name, gdf, merged_geom, geo_dict, output_path,
                   files, log, osm>>
    /\ UNCHANGED resolverVars

----------------------------------------------------------------------------
(* The runs checked: batches of several places over a coarse extract, and  *)
(* single places, every name within the bound and every table within the   *)
(* bounds.                                                                 *)

Configurations ==
    {[CITIES |-> c, osm |-> "coarse"] : c \in SeqsUpTo(BatchNames, MaxCities)}
    \cup {[CITIES |-> <<n>>, osm |-> "coarse"] : n \in PlaceNames}
    \cup {[CITIES |-> <<<<"a">>>>, osm |-> "full"]}

ResolverIdle ==
    /\ index = <<>>
    /\ query = <<>>
    /\ result = [found |-> FALSE, path |-> [file |-> <<>>, n |-> 0], fuzzy |-> TRUE]
    /\ fuzzy_used = FALSE
    /\ rpc = "unused"

Init ==
    /\ \E c \in Configurations : CITIES = c.CITIES /\ osm = c.osm
    /\ i = 1
    /\ pc = "main"
    /\ city_name = <<>>
    /\ gdf = NoGdf
    /\ merged_geom = NoGeom
    /\ geo_dict = NoDict
    /\ output_path = NoPath
    /\ files = <<>>
    /\ log = <<>>
    /\ ResolverIdle

Next ==
    \/ Main
    \/ FetchRaises
    \/ Fetch
    \/ FilterReproject
    \/ Clean
    \/ MergeAndBuild
    \/ Write
    \/ Exported
    \/ Except
    \/ Complete

Spec == Init /\ [][Next]_vars

\* The interpreter runs the script step after step.
FairSpec == Spec /\ WF_vars(Next)

----------------------------------------------------------------------------
(* The boundary index and the fuzzy resolver.  Their code is not in        *)
(* boundary_generator.py; they are modelled from sections 3, 4.1 and 4.3   *)
(* of the specification.                                                   *)

MaxKeyLen == 2

MaxIndex == 2

MaxQueryLen == 3

KeyAlphabet == {"a", "b"}

QueryAlphabet == {"a", "A", "b", " "}

\* The acceptance threshold of the similarity, in percent (0.70).
ACCEPT_PERCENT == 70

Lower(c) == IF c = "A" THEN "a" ELSE IF c = "B" THEN "b" ELSE c

RECURSIVE TrimLeft(_)
TrimLeft(s) == IF s # <<>> /\ Head(s) = " " THEN TrimLeft(Tail(s)) ELSE s

RECURSIVE TrimRight(_)
TrimRight(s) ==
    IF s # <<>> /\ s[Len(s)] = " " THEN TrimRight(SubSeq(s, 1, Len(s) - 1)) ELSE s

\* Trim whitespace, lowercase.
Normalize(s) ==
    LET trimmed == TrimRight(TrimLeft(s))
    IN  [k \in DOMAIN trimmed |-> Lower(trimmed[k])]

\* The common blocks of a and b: b holds at jb what a holds at ja, n long.
CommonBlocks(a, b) ==
    {blk \in [ja : DOMAIN a, jb : DOMAIN b, n : 1..Len(a)] :
        /\ blk.ja + blk.n - 1 <= Len(a)
        /\ blk.jb + blk.n - 1 <= Len(b)
        /\ SubSeq(a, blk.ja, blk.ja + blk.n - 1) = SubSeq(b, blk.jb, blk.jb + blk.n - 1)}

\* The number of matching characters: the longest common block, the
\* earliest in a and then in b, and the matches on its left and on its right.
RECURSIVE Matches(_, _)
Matches(a, b) ==
    LET blocks == CommonBlocks(a, b)
    IN  IF blocks = {} THEN 0
        ELSE LET Better(x, y) ==
                    \/ x.n > y.n
                    \/ x.n = y.n /\ x.ja < y.ja
                    \/ x.n = y.n /\ x.ja = y.ja /\ x.jb <= y.jb
                 m == CHOOSE x \in blocks : \A y \in blocks : Better(x, y)
             IN  m.n
                 + Matches(SubSeq(a, 1, m.ja - 1), SubSeq(b, 1, m.jb - 1))
                 + Matches(SubSeq(a, m.ja + m.n, Len(a)), SubSeq(b, m.jb + m.n, Len(b)))

\* The similarity ratio 2 * M / T of a and b as a fraction.
Ratio(a, b) == [num |-> 2 * Matches(a, b), den |-> Len(a) + Len(b)]

Accepted(r) == r.den > 0 /\ 100 * r.num >= ACCEPT_PERCENT * r.den

Higher(r, q) == r.num * q.den > q.num * r.den

NOT_FOUND == [found |-> FALSE, path |-> [file |-> <<>>, n |-> 0], fuzzy |-> TRUE]

\* Mutant of resolve: the query is looked up as it was typed.
resolve_as_typed(q, idx) ==
    LET exact == {k \in DOMAIN idx : idx[k].key = q}
    IN  IF exact # {}
        THEN [found |-> TRUE, path |-> idx[CHOOSE k \in exact : TRUE].path,
              fuzzy |-> FALSE]
        ELSE NOT_FOUND

\* resolve(query, index): the exact lookup of the normalized query, then the
\* first key of the highest accepted similarity, else NOT_FOUND.
resolve(q, idx) ==
    LET nq == Normalize(q)
        exact == {k \in DOMAIN idx : idx[k].key = nq}
        score(k) == Ratio(nq, idx[k].key)
        accepted == {k \in DOMAIN idx : Accepted(score(k))}
        best == CHOOSE k \in accepted :
                   \A j \in accepted :
                      \/ Higher(score(k), score(j))
                      \/ ~Higher(score(j), score(k)) /\ k <= j
    IN  IF exact # {}
        THEN [found |-> TRUE, path |-> idx[CHOOSE k \in exact : TRUE].path,
              fuzzy |-> FALSE]
        ELSE IF accepted # {}
             THEN [found |-> TRUE, path |-> idx[best].path, fuzzy |-> TRUE]
             ELSE NOT_FOUND

IndexKeys == SeqsUpTo(KeyAlphabet, MaxKeyLen) \ {<<>>}

\* The indexes a build can produce: keys trimmed, lowercase and unique, in
\* insertion order, each with the path of its own file.
Indexes ==
    {[k \in DOMAIN keys |-> [key |-> keys[k], path |-> [file |-> keys[k], n |-> k]]] :
        keys \in {ks \in SeqsUpTo(IndexKeys, MaxIndex) : Distinct(ks)}}

Queries == SeqsUpTo(QueryAlphabet, MaxQueryLen)

PipelineIdle ==
    /\ CITIES = <<>>
    /\ osm = "coarse"
    /\ i = 1
    /\ pc = "idle"
    /\ city_name = <<>>
    /\ gdf = NoGdf
    /\ merged_geom = NoGeom
    /\ geo_dict = NoDict
    /\ output_path = NoPath
    /\ files = <<>>
    /\ log = <<>>

ResolveInit ==
    /\ index \in Indexes
    /\ query \in Queries
    /\ result = NOT_FOUND
    /\ fuzzy_used = FALSE
    /\ rpc = "idle"
    /\ PipelineIdle

Resolve ==
    /\ rpc = "idle"
    /\ LET r == resolve(query, index)
       IN  /\ result' = r
           /\ fuzzy_used' = r.fuzzy
    /\ rpc' = "resolved"
    /\ UNCHANGED <<index, query>>
    /\ UNCHANGED pipeVars

ResolveNext == Resolve

SpecResolve == ResolveInit /\ [][ResolveNext]_vars

----------------------------------------------------------------------------
(* Properties of the batch pipeline *)

Attempted == [k \in DOMAIN log |-> log[k].city]

Outcomes(kind) == {k \in DOMAIN log : log[k].outcome = kind}

\* The value a written feature holds under a property key.
Property(feat, key) ==
    LET k == CHOOSE j \in DOMAIN feat.properties : feat.properties[j].key = key
    IN  feat.properties[k].value

PropertyKeys(feat) == {feat.properties[k].key : k \in DOMAIN feat.properties}

\* Every feature of every file under the output folder.
WrittenFeatures ==
    UNION {{[path |-> p, n |-> k] : k \in DOMAIN files[p].features} : p \in DOMAIN files}

FeatureAt(w) == files[w.path].features[w.n]

Parts(geom) == Cardinality(geom.region)

\* C1: process_city is called for the places of the list in list order
\* whatever the earlier places did, and the run reaches the final print with
\* every place of the list attempted.
C1_BatchRunsToCompletion ==
    /\ [](Attempted = SubSeq(CITIES, 1, Len(log)))
    /\ <>(pc = "done" /\ Attempted = CITIES)

\* C1 witness: a finished run in which a place failed and a later one was
\* exported.
C1_FailureThenSuccess ==
    /\ pc = "done"
    /\ \E j \in Outcomes("error") : \E k \in Outcomes("exported") : j < k

\* C2 as stated: a merged geometry of k parts is written as k features
\* named with the place name and the part numbers 1..k, each a Polygon; a
\* single polygon as one feature.
C2_OneFeaturePerPart ==
    pc = "exported" =>
        LET feats == files[output_path].features
            k == Parts(merged_geom)
        IN  /\ Len(feats) = k
            /\ k > 1 => \A j \in 1..k :
                  /\ Property(feats[j], "name") = city_name \o <<" ">> \o Digits(j)
                  /\ feats[j].geometry.type = "Polygon"

\* C2 amended: whatever the number k of parts, the file holds exactly one
\* feature named with the place name alone; its geometry is a Polygon for
\* k = 1 and for k > 1 a MultiPolygon of k parts in the part order of the
\* merged geometry.
C2_OneMergedFeature ==
    pc = "exported" =>
        LET feats == files[output_path].features
            k == Parts(merged_geom)
            parts == feats[1].geometry.coordinates.lines
            FirstX(part) == part.lines[1].lines[1].x
        IN  /\ Len(feats) = 1
            /\ Property(feats[1], "name") = city_name
            /\ feats[1].geometry.type = IF k = 1 THEN "Polygon" ELSE "MultiPolygon"
            /\ k > 1 => /\ Len(parts) = k
                        /\ \A j \in 1..k : FirstX(parts[j]) \div 2 \in merged_geom.region
                        /\ \A j \in 1..(k - 1) : FirstX(parts[j]) < FirstX(parts[j + 1])

\* C2 witness: a place whose merged geometry has several parts was exported.
C2_MultiPartExported == pc = "exported" /\ Parts(merged_geom) > 1

\* C3 as stated: the property bag of every written feature holds the name,
\* the provenance string, the annotation list and, besides them, a creation
\* timestamp.
C3_FourProperties ==
    \A w \in WrittenFeatures :
        /\ {"name", "source", "nurseries"} \subseteq PropertyKeys(FeatureAt(w))
        /\ PropertyKeys(FeatureAt(w)) \ {"name", "source", "nurseries"} # {}

\* C3 amended: the property bag of every written feature holds exactly the
\* name of a processed place, the provenance string "user-drawn" and an empty
\* annotation list; it holds no creation timestamp.
C3_ThreeProperties ==
    \A w \in WrittenFeatures :
        /\ PropertyKeys(FeatureAt(w)) = {"name", "source", "nurseries"}
        /\ Len(FeatureAt(w).properties) = 3
        /\ \E k \in 1..i : k <= Len(CITIES) /\ Property(FeatureAt(w), "name") = CITIES[k]
        /\ Property(FeatureAt(w), "source") = "user-drawn"
        /\ Property(FeatureAt(w), "nurseries") = <<>>

\* C3 witness: a feature was written.
C3_FeatureWritten == pc = "exported" /\ WrittenFeatures # {}

IsJsonNumber(token) ==
    /\ token # <<>>
    /\ \A k \in DOMAIN token : token[k] \in Range(DigitChars)

\* C4: every feature built carries an integer id, and the id token of every
\* written feature is a JSON number.
C4_NumericId ==
    /\ \A k \in DOMAIN geo_dict.features :
          "id" \in DOMAIN geo_dict.features[k] /\ geo_dict.features[k].id.t = "int"
    /\ \A w \in WrittenFeatures : IsJsonNumber(FeatureAt(w).id)

\* The file name inside the output path: between the folder and the
\* extension.
FileStem(path) == SubSeq(path, 3, Len(path) - 1)

IsOutputPath(path) ==
    /\ Len(path) >= 3
    /\ path[1] = OUTPUT_FOLDER
    /\ path[2] = "/"
    /\ path[Len(path)] = ".geojson"

\* C5 as stated: the file name is the place name, as long as it, with every
\* space and every comma an underscore.
C5_SameLengthName ==
    output_path # NoPath =>
        /\ IsOutputPath(output_path)
        /\ Len(FileStem(output_path)) = Len(city_name)
        /\ \A k \in DOMAIN city_name :
              FileStem(output_path)[k] =
                 IF city_name[k] \in {" ", ","} THEN "_" ELSE city_name[k]

\* C5 amended: the file name is the place name with every comma deleted and
\* every space an underscore (shorter than the name by its commas), followed
\* by the extension, inside the output folder.
C5_CommasDeleted ==
    output_path # NoPath =>
        LET NotComma(c) == c # ","
            kept == SelectSeq(city_name, NotComma)
        IN  /\ IsOutputPath(output_path)
            /\ Len(FileStem(output_path)) = Len(kept)
            /\ \A k \in DOMAIN kept :
                  FileStem(output_path)[k] = IF kept[k] = " " THEN "_" ELSE kept[k]
            /\ pc = "exported" => output_path \in DOMAIN files

\* C5 witness: a place whose name holds a comma and a space was exported.
C5_CommaAndSpaceExported ==
    pc = "exported" /\ {",", " "} \subseteq Range(city_name)

\* C6: after a run over distinct place names there are as many complete
\* output files as places that were exported.
C6_OneFilePerPlace ==
    (pc = "done" /\ Distinct(CITIES)) =>
        Cardinality({p \in DOMAIN files : files[p].type # "partial"})
            = Cardinality(Outcomes("exported"))

\* C7: a geometry that is put into a feature is valid.
C7_FeatureGeometryValid == geo_dict.type # "none" => merged_geom.valid

\* C7 witness: a feature was built from a table with a repaired row.
C7_RepairedRowInFeature ==
    /\ pc = "write"
    /\ \E k \in DOMAIN gdf.rows : gdf.rows[k].repaired

\* C8: the write step is reached, and a file changed, only with the table in
\* EPSG:4326.
C8_ReprojectedBeforeWrite ==
    /\ [](pc \in {"write", "exported"} => gdf.crs = "EPSG:4326")
    /\ [][files' # files => gdf.crs = "EPSG:4326"]_vars

\* C8 witness: a file was written for a table fetched in another CRS.
C8_ReprojectedAndExported ==
    pc = "exported" /\ gdf.fetched_crs = "EPSG:3857" /\ output_path \in DOMAIN files

\* C10: the files change only in the write step, after the feature was built
\* and its coordinates formatted, and only at the path of the place; every
\* other way out of process_city leaves the files as they were; after the
\* write process_city only returns.
C10_WriteIsLastEffect ==
    /\ [][files' # files =>
            /\ pc = "write"
            /\ geo_dict.type = "FeatureCollection"
            /\ \A k \in DOMAIN geo_dict.features : ~FormatRaises(geo_dict.features[k])
            /\ DOMAIN files' = DOMAIN files \cup {OutputPath(city_name)}
            /\ \A p \in DOMAIN files : p # OutputPath(city_name) => files'[p] = files[p]
            /\ pc' \in {"exported", "except"}]_vars
    /\ [][pc # "write" => files' = files]_vars
    /\ [](pc = "exported" => files[output_path] = Render(geo_dict))

\* C10 witness: a place failed before its write step in a run that had
\* already written a file, which is still there.
C10_FailureAfterEarlierExport ==
    /\ pc = "except"
    /\ output_path = NoPath
    /\ Outcomes("exported") # {}
    /\ files # <<>>

----------------------------------------------------------------------------
(* Properties of the resolver *)

\* key is what is left of q after trimming its spaces and lowercasing.
TrimmedLowercase(key, q) ==
    \E lo \in 1..(Len(q) + 1) : \E hi \in 0..Len(q) :
        /\ \A k \in 1..(lo - 1) : q[k] = " "
        /\ \A k \in (hi + 1)..Len(q) : q[k] = " "
        /\ lo <= hi
        /\ q[lo] # " " /\ q[hi] # " "
        /\ Len(key) = hi - lo + 1
        /\ \A k \in DOMAIN key :
              key[k] = (IF q[lo + k - 1] = "A" THEN "a" ELSE q[lo + k - 1])

\* C9: a query that, trimmed and lowercased, is a key of the index resolves
\* to the path of that key, and the similarity step is not consulted.
C9_ExactLookupFirst ==
    rpc = "resolved" =>
        \A k \in DOMAIN index :
            TrimmedLowercase(index[k].key, query) =>
                /\ result.found
                /\ result.path = index[k].path
                /\ ~fuzzy_used

\* C9 witness: a query typed with a capital and a space around it resolved
\* to the second key of an index.
C9_ExactHitOnSecondKey ==
    /\ rpc = "resolved"
    /\ Len(index) = 2
    /\ TrimmedLowercase(index[2].key, query)
    /\ "A" \in Range(query) /\ " " \in Range(query)
    /\ result.path = index[2].path

====
